---- MODULE Spec2Model ----
(***************************************************************************)
(* Model of the Archivist orchestration pipeline of the engine (the        *)
(* tracking queue, the per-terms pipeline, the error policy and the        *)
(* shutdown sequence) together with the Recorder validation it calls.      *)
(*                                                                         *)
(* One step of the model is one callback of the JavaScript event loop: the *)
(* code that runs from the resumption of a promise (or of a timer) up to   *)
(* the next suspension.                                                    *)
(***************************************************************************)
EXTENDS Integers, Sequences, FiniteSets, TLC

\* ------------------------------------------------------------------ bounds
\* Number of batches (calls of trackAllTermsChanges) run one after another.
MaxBatches == 2
\* Number of terms declared by services whose terms may have snapshots, and
\* largest number of terms scheduled by a live-fetch batch.
MaxTerms == 2
\* Number of terms declared by services without any snapshot yet.
ManyTerms == 11
\* Number of documents of the multi-document terms (terms 1).
MaxDocs == 2

\* ------------------------------------------------------- program constants
MAX_PARALLEL_TERMS_TRACKS == 1
MAX_PARALLEL_TERMS_TRACKS_WITH_EXTRACT_ONLY == 10

Min(a, b) == IF a < b THEN a ELSE b
Max(a, b) == IF a < b THEN b ELSE a

\* The smallest element of a set of numbers.
First(S) == CHOOSE d \in S : \A e \in S : d <= e
\* The sequence of the elements of a set of numbers in increasing order.
RECURSIVE InOrder(_)
InOrder(S) == IF S = {} THEN << >> ELSE << First(S) >> \o InOrder(S \ {First(S)})

\* ------------------------------------------------------------ declarations
VARIABLE
  declared             \* services: the number of terms the loaded services declare

\* The loaded services: terms t are pushed in increasing order of t
\* (#forEachTermsOf sorts the service ids); terms 1 is multi-document.
Terms == 1..declared
Documents(t) == 1..(IF t = 1 THEN MaxDocs ELSE 1)
DocumentKeys == {k \in Terms \X (1..MaxDocs) : k[2] \in Documents(k[1])}
StoredKeys == {k \in DocumentKeys : k[1] <= MaxTerms}

\* ------------------------------------------------------------------ errors
\* What a rejected fetch can throw: the class of the error and which of the
\* two substrings tested by the code its text contains.
FetchErrors ==
  { "FetchDocumentError", "FetchDocumentError+RateLimit",
    "FetchDocumentError+EAI_AGAIN", "Error", "Error+RateLimit" }

\* error instanceof FetchDocumentError
IsFetchDocumentError(e) ==
  e \in { "FetchDocumentError", "FetchDocumentError+RateLimit",
          "FetchDocumentError+EAI_AGAIN" }

\* error.message.includes('EAI_AGAIN')
IncludesEAI_AGAIN(e) ==
  e \in { "FetchDocumentError+EAI_AGAIN" }

\* the text of the error contains 'HttpError: API rate limit exceeded for user ID'
IncludesRateLimit(e) ==
  e \in { "FetchDocumentError+RateLimit", "Error+RateLimit" }

\* The catch block of fetchTermsDocuments: TRUE when the error is pushed to
\* inaccessibleContentErrors, FALSE when it is thrown again.
IsInaccessible(e) == IsFetchDocumentError(e) /\ ~IncludesEAI_AGAIN(e)

\* The failure a terms run ends with.
NoFailure == [type |-> "none", reasons |-> <<>>, origin |-> 0, quota |-> FALSE]

\* new InaccessibleContentError(inaccessibleContentErrors): the aggregate
\* lists every collected message, so its text contains the rate limit text
\* when one of the messages does.
InaccessibleContentError(reasons, msgs) ==
  [type |-> "InaccessibleContentError", reasons |-> reasons, origin |-> 0,
   quota |-> \E i \in 1..Len(msgs) : IncludesRateLimit(msgs[i])]

\* An error of a fetch of document d thrown again as it is.
ThrownFetchError(e, d) ==
  [type |-> e, reasons |-> <<>>, origin |-> d, quota |-> IncludesRateLimit(e)]

\* An error thrown by extract, or a validation error of the Recorder.
PlainError(msg) == [type |-> msg, reasons |-> <<>>, origin |-> 0, quota |-> FALSE]

\* -------------------------------------------------------------- Recorder
\* The fields the Archivist passes to recorder.recordSnapshot and
\* recorder.recordVersion (all of them set).
ArchivistRecordSnapshotParams ==
  {"serviceId", "termsType", "documentId", "content", "mimeType", "fetchDate"}
ArchivistRecordVersionParams ==
  {"serviceId", "termsType", "content", "fetchDate", "snapshotIds", "extractOnly"}

\* Recorder.recordSnapshot: the validation error thrown for the set of
\* fields present in the parameters, "none" when the repository save is made.
RecorderRecordSnapshot(params) ==
  IF "serviceId" \notin params THEN "A service ID is required"
  ELSE IF "documentType" \notin params THEN "A document type is required"
  ELSE IF "fetchDate" \notin params THEN "The fetch date of the snapshot is required"
  ELSE IF "content" \notin params THEN "A document content is required"
  ELSE IF "mimeType" \notin params THEN "A document mime type is required"
  ELSE "none"

\* Recorder.recordVersion: the same, with the snapshot ID.
RecorderRecordVersion(params) ==
  IF "serviceId" \notin params THEN "A service ID is required"
  ELSE IF "documentType" \notin params THEN "A document type is required"
  ELSE IF "snapshotId" \notin params THEN "A snapshot ID is required"
  ELSE IF "fetchDate" \notin params THEN "The fetch date of the snapshot is required"
  ELSE IF "content" \notin params THEN "A document content is required"
  ELSE IF "mimeType" \notin params THEN "A document mime type is required"
  ELSE "none"

\* No call of recordVersion was made.
NoVersion == [content |-> << >>, snapshotIds |-> << >>, fetchDate |-> 0, extractOnly |-> FALSE]

\* No function was called alone.
NoCall == [op |-> "none"]

\* ------------------------------------------------------------------- state
VARIABLES
  stored,              \* snapshots repository: whether a document has a latest snapshot ("unknown" until it is first queried)
  batches,             \* the extractOnly of each call of trackAllTermsChanges so far
  batchPc,             \* position of trackAllTermsChanges
  scheduled,           \* number of terms the current batch pushes
  concurrency,         \* trackingQueue.concurrency
  tasks,               \* trackingQueue: the terms waiting, in push order
  processingScheduled, \* trackingQueue: a setImmediate(process) is pending
  errorHandler,        \* trackingQueue: the error handler is registered
  drainWaiter,         \* trackingQueue: the promise of drain() is registered
  pc,                  \* position of trackTermsChanges for each terms
  fetch,               \* state of the fetch of each document
  inaccessibleContentErrors, \* per run: the documents whose message was pushed
  extraction,          \* state of the extract call for each snapshot
  failure,             \* the error each run was rejected with
  browser,             \* the headless browser
  stopCalls,           \* number of calls of stopHeadlessBrowser
  recorder,            \* lifecycle of the Recorder
  shutdown,            \* position of the listener of the error event
  watchdog,            \* the 60 s timer of the error listener is armed
  exitCode,            \* 0 while the process runs, else the code of process.exit
  emitted,             \* events emitted: counters per event and terms
  snapshotCalls,       \* per run: documents recordSnapshot was called for
  recorderUse,         \* Recorder calls made, with the lifecycle of the Recorder they met
  extracted,           \* per run: the ids of the snapshots whose extraction resolved, in the order they resolved
  version,             \* per run: the parameters recordVersion was called with
  unit                 \* the last call of a function of the Recorder or of the data mapper taken alone, with its result

\* The extractOnly of the current batch (of the tasks in the queue).
extractOnly == Len(batches) > 0 /\ batches[Len(batches)]

vars == << declared, stored, batches, batchPc, scheduled, concurrency, tasks,
           processingScheduled, errorHandler, drainWaiter, pc, fetch,
           inaccessibleContentErrors, extraction, failure, browser, stopCalls,
           recorder, shutdown, watchdog, exitCode, emitted, snapshotCalls,
           recorderUse, extracted, version, unit >>

NoEvents ==
  [trackingStarted |-> 0, trackingCompleted |-> 0,
   inaccessibleContent |-> [t \in Terms |-> 0],
   error |-> [t \in Terms |-> 0]]

\* The state after `new Archivist` and `initialize()`: the Recorder is
\* initialized, the queue is created with MAX_PARALLEL_TERMS_TRACKS and its
\* error handler, the services are loaded and the error listener is set.
Init ==
  /\ \/ declared = MaxTerms /\ stored = [k \in StoredKeys |-> "unknown"]
     \/ declared = ManyTerms /\ stored = [k \in StoredKeys |-> "no"]
  /\ batches = <<>>
  /\ batchPc = "idle"
  /\ scheduled = 0
  /\ concurrency = MAX_PARALLEL_TERMS_TRACKS
  /\ tasks = <<>>
  /\ processingScheduled = FALSE
  /\ errorHandler = TRUE
  /\ drainWaiter = FALSE
  /\ pc = [t \in Terms |-> "idle"]
  /\ fetch = [t \in Terms |-> [d \in Documents(t) |-> "none"]]
  /\ inaccessibleContentErrors = [t \in Terms |-> <<>>]
  /\ extraction = [t \in Terms |-> [d \in Documents(t) |-> "none"]]
  /\ failure = [t \in Terms |-> NoFailure]
  /\ browser = "off"
  /\ stopCalls = 0
  /\ recorder = "initialized"
  /\ shutdown = "none"
  /\ watchdog = FALSE
  /\ exitCode = 0
  /\ emitted = NoEvents
  /\ snapshotCalls = [t \in Terms |-> {}]
  /\ recorderUse = {}
  /\ extracted = [t \in Terms |-> << >>]
  /\ version = [t \in Terms |-> NoVersion]
  /\ unit = NoCall

\* --------------------------------------------------------- tracking queue
\* The runs the queue counts as running (its workersList).
workersList == {t \in Terms : pc[t] \in {"fetching", "loading", "extracting"}}

\* The first k terms waiting in the queue.
FirstTasks(ts, k) == {ts[i] : i \in 1..k}

\* A Recorder call, with the lifecycle state of the Recorder it meets.
Use(op, lifecycle) == [op |-> op, lifecycle |-> lifecycle]

\* trackTermsChanges up to its first suspension, for the runs S that
\* queue.process() starts: a live run calls fetch for every document of the
\* terms, an extract-only run calls getLatestSnapshot for every document.
StartedPc(pc1, S) ==
  [t \in Terms |-> IF t \in S THEN (IF extractOnly THEN "loading" ELSE "fetching") ELSE pc1[t]]
\* Faulty variant: the documents are fetched in an extract-only run as well.
StartedFetchAlways(fetch1, S) ==
  [t \in Terms |-> [d \in Documents(t) |->
     IF t \in S THEN "pending" ELSE fetch1[t][d]]]
StartedFetch(fetch1, S) ==
  [t \in Terms |-> [d \in Documents(t) |->
     IF t \in S /\ ~extractOnly THEN "pending" ELSE fetch1[t][d]]]
StartedUse(use1, S, lifecycle) ==
  IF S # {} /\ extractOnly THEN use1 \cup {Use("getLatestSnapshot", lifecycle)} ELSE use1

\* queue.process(): how many waiting tasks are started.
ProcessCount(running, waiting) == Max(0, Min(concurrency - running, waiting))

\* The variables a step leaves alone when no run ends in it.
NoCallback(pc1, fetch1, use1) ==
  /\ pc' = pc1
  /\ fetch' = fetch1
  /\ recorderUse' = use1
  /\ UNCHANGED << failure, tasks, errorHandler, drainWaiter, emitted, shutdown,
                  watchdog, browser, stopCalls, recorder, batchPc >>

\* Faulty variant: kill() leaves the waiting tasks in the queue.
KillKeepsTasks(waiting) == waiting

\* trackingQueue.kill(): the waiting tasks that are left.
Kill(waiting) == << >>

\* Faulty variant: the listener sets no timer.
ArmWatchdogNever(fatal) == watchdog

\* The listener of `error` arms its timer before anything else.
ArmWatchdog(fatal) == watchdog \/ fatal

\* Faulty variant: the handler has no bypass for the rate limit text.
ErrorHandlerEventNoBypass(f) ==
  IF f.type = "InaccessibleContentError" THEN "inaccessibleContent" ELSE "error"

\* Faulty variant: the handler reports every error that is not bypassed as `error`.
ErrorHandlerEventAllFatal(f) == IF f.quota THEN "none" ELSE "error"

\* Faulty variant: the handler tests the class of the error before the rate
\* limit text.
ErrorHandlerEventClassFirst(f) ==
  IF f.type = "InaccessibleContentError" THEN "inaccessibleContent"
  ELSE IF f.quota THEN "none"
  ELSE "error"

\* The handler given to trackingQueue.error: what it emits for the error f.
ErrorHandlerEvent(f) ==
  IF f.quota THEN "none"
  ELSE IF f.type = "InaccessibleContentError" THEN "inaccessibleContent"
  ELSE "error"

\* The run of terms t ends (newPc) with the error f, or with NoFailure: the
\* callback of the queue for the task.  It calls the error handler when one
\* is registered; an `error` event runs the listener of initialize() up to
\* its first await (watchdog armed, queue killed, stopHeadlessBrowser
\* called).  Then a queue left idle fires drain, which resumes
\* trackAllTermsChanges (stopHeadlessBrowser and recorder.finalize called),
\* and process() starts the next waiting tasks.
TaskCallback(t, newPc, f, fetch1, use1) ==
  LET event == IF errorHandler /\ f.type # "none" THEN ErrorHandlerEvent(f) ELSE "none"
      fatal == event = "error"
      tasks1 == IF fatal THEN Kill(tasks) ELSE tasks
      running1 == workersList \ {t}
      drained == ~fatal /\ drainWaiter /\ tasks1 = <<>> /\ running1 = {}
      k == ProcessCount(Cardinality(running1), Len(tasks1))
      S == FirstTasks(tasks1, k)
      pc1 == [u \in Terms |->
                IF u = t THEN newPc
                ELSE IF fatal /\ pc[u] = "queued" /\ \A i \in 1..Len(tasks1) : tasks1[i] # u THEN "killed"
                ELSE pc[u]]
  IN /\ failure' = [failure EXCEPT ![t] = f]
     /\ emitted' =
          IF event = "none" THEN emitted
          ELSE [emitted EXCEPT ![event][t] = @ + 1]
     /\ tasks' = SubSeq(tasks1, k + 1, Len(tasks1))
     /\ errorHandler' = (errorHandler /\ ~fatal)
     /\ drainWaiter' = (drainWaiter /\ ~fatal /\ ~drained)
     /\ watchdog' = ArmWatchdog(fatal)
     /\ shutdown' = IF fatal THEN "stoppingBrowser" ELSE shutdown
     /\ browser' = IF fatal \/ drained THEN "stopping" ELSE browser
     /\ stopCalls' = IF fatal \/ drained THEN stopCalls + 1 ELSE stopCalls
     /\ recorder' = IF drained THEN "finalizing" ELSE recorder
     /\ batchPc' = IF drained THEN "releasing" ELSE batchPc
     /\ pc' = StartedPc(pc1, S)
     /\ fetch' = StartedFetch(fetch1, S)
     /\ recorderUse' = StartedUse(use1, S, recorder)

\* ---------------------------------------------------- trackAllTermsChanges
\* The number of terms the services and terms types given to the call select.
\* A live-fetch batch runs one terms at a time whatever the number of terms
\* declared: with ManyTerms terms declared it is given a selection that
\* matches nothing, its runs being those of the batches of MaxTerms terms.
BatchSizes(eo) == 0..(IF eo \/ declared <= MaxTerms THEN declared ELSE 0)

\* trackAllTermsChanges up to its first await: trackingStarted is emitted,
\* launchHeadlessBrowser() and recorder.initialize() are called.
trackAllTermsChanges(n, eo) ==
  /\ exitCode = 0
  /\ batchPc = "idle"
  /\ Len(batches) < MaxBatches
  /\ batches' = Append(batches, eo)
  /\ batchPc' = "acquiring"
  /\ scheduled' = n
  /\ emitted' = [emitted EXCEPT !.trackingStarted = @ + 1,
                                !.inaccessibleContent = [t \in Terms |-> 0],
                                !.error = [t \in Terms |-> 0]]
  /\ browser' = "launching"
  /\ recorder' = "initializing"
  /\ pc' = [t \in Terms |-> "idle"]
  /\ fetch' = [t \in Terms |-> [d \in Documents(t) |-> "none"]]
  /\ inaccessibleContentErrors' = [t \in Terms |-> <<>>]
  /\ extraction' = [t \in Terms |-> [d \in Documents(t) |-> "none"]]
  /\ failure' = [t \in Terms |-> NoFailure]
  /\ snapshotCalls' = [t \in Terms |-> {}]
  /\ recorderUse' = {}
  /\ extracted' = [t \in Terms |-> << >>]
  /\ version' = [t \in Terms |-> NoVersion]
  /\ UNCHANGED << unit, declared, stored, concurrency, tasks, processingScheduled, errorHandler,
                  drainWaiter, stopCalls, shutdown, watchdog, exitCode >>

\* Faulty variant: the concurrency is raised for an extract-only batch and never
\* lowered again.
BatchConcurrencyRaisedOnly(eo) ==
  IF eo THEN MAX_PARALLEL_TERMS_TRACKS_WITH_EXTRACT_ONLY ELSE concurrency

\* The value given to trackingQueue.concurrency for a batch.
BatchConcurrency(eo) ==
  IF eo THEN MAX_PARALLEL_TERMS_TRACKS_WITH_EXTRACT_ONLY ELSE MAX_PARALLEL_TERMS_TRACKS

\* trackAllTermsChanges once both promises of its Promise.all are resolved:
\* the concurrency is set, every terms is pushed (the first push schedules
\* process() with setImmediate) and drain() is awaited.
Schedule ==
  /\ concurrency' = BatchConcurrency(extractOnly)
  /\ tasks' = [i \in 1..scheduled |-> i]
  /\ pc' = [t \in Terms |-> IF t <= scheduled THEN "queued" ELSE pc[t]]
  /\ processingScheduled' = (scheduled > 0)
  /\ drainWaiter' = TRUE
  /\ batchPc' = "draining"

NoSchedule ==
  UNCHANGED << concurrency, tasks, pc, processingScheduled, drainWaiter, batchPc >>

\* launchHeadlessBrowser() resolves.
BrowserLaunched ==
  /\ exitCode = 0
  /\ batchPc = "acquiring"
  /\ browser = "launching"
  /\ browser' = "on"
  /\ IF recorder = "initialized" THEN Schedule ELSE NoSchedule
  /\ UNCHANGED << unit, extracted, version, declared, stored, batches, scheduled, errorHandler, fetch,
                  inaccessibleContentErrors, extraction, failure, stopCalls,
                  recorder, shutdown, watchdog, exitCode, emitted,
                  snapshotCalls, recorderUse >>

\* Faulty variant: the terms are pushed as soon as the Recorder is initialized,
\* without awaiting launchHeadlessBrowser().
RecorderInitializedNoWait ==
  /\ exitCode = 0
  /\ batchPc = "acquiring"
  /\ recorder = "initializing"
  /\ recorder' = "initialized"
  /\ Schedule
  /\ UNCHANGED << unit, extracted, version, declared, stored, batches, scheduled, errorHandler, fetch,
                  inaccessibleContentErrors, extraction, failure, browser,
                  stopCalls, shutdown, watchdog, exitCode, emitted,
                  snapshotCalls, recorderUse >>

\* recorder.initialize() resolves.
RecorderInitialized ==
  /\ exitCode = 0
  /\ batchPc = "acquiring"
  /\ recorder = "initializing"
  /\ recorder' = "initialized"
  /\ IF browser = "on" THEN Schedule ELSE NoSchedule
  /\ UNCHANGED << unit, extracted, version, declared, stored, batches, scheduled, errorHandler, fetch,
                  inaccessibleContentErrors, extraction, failure, browser,
                  stopCalls, shutdown, watchdog, exitCode, emitted,
                  snapshotCalls, recorderUse >>

\* The setImmediate of the first push: queue.process() starts the first runs.
QueueProcess ==
  /\ exitCode = 0
  /\ processingScheduled
  /\ processingScheduled' = FALSE
  /\ LET k == ProcessCount(Cardinality(workersList), Len(tasks))
         S == FirstTasks(tasks, k)
     IN /\ tasks' = SubSeq(tasks, k + 1, Len(tasks))
        /\ pc' = StartedPc(pc, S)
        /\ fetch' = StartedFetch(fetch, S)
        /\ recorderUse' = StartedUse(recorderUse, S, recorder)
  /\ UNCHANGED << unit, extracted, version, declared, stored, batches, batchPc, scheduled, concurrency,
                  errorHandler, drainWaiter, inaccessibleContentErrors,
                  extraction, failure, browser, stopCalls, recorder, shutdown,
                  watchdog, exitCode, emitted, snapshotCalls >>

\* After drain: stopHeadlessBrowser() resolves.
ReleaseBrowserStopped ==
  /\ exitCode = 0
  /\ batchPc = "releasing"
  /\ browser = "stopping"
  /\ browser' = "off"
  /\ IF recorder = "finalized"
     THEN /\ emitted' = [emitted EXCEPT !.trackingCompleted = @ + 1]
          /\ batchPc' = "idle"
     ELSE UNCHANGED << emitted, batchPc >>
  /\ UNCHANGED << unit, extracted, version, declared, stored, batches, scheduled, concurrency, tasks,
                  processingScheduled, errorHandler, drainWaiter, pc, fetch,
                  inaccessibleContentErrors, extraction, failure, stopCalls,
                  recorder, shutdown, watchdog, exitCode, snapshotCalls,
                  recorderUse >>

\* After drain: recorder.finalize() resolves.
ReleaseRecorderFinalized ==
  /\ exitCode = 0
  /\ batchPc = "releasing"
  /\ recorder = "finalizing"
  /\ recorder' = "finalized"
  /\ IF browser = "off"
     THEN /\ emitted' = [emitted EXCEPT !.trackingCompleted = @ + 1]
          /\ batchPc' = "idle"
     ELSE UNCHANGED << emitted, batchPc >>
  /\ UNCHANGED << unit, extracted, version, declared, stored, batches, scheduled, concurrency, tasks,
                  processingScheduled, errorHandler, drainWaiter, pc, fetch,
                  inaccessibleContentErrors, extraction, failure, browser,
                  stopCalls, shutdown, watchdog, exitCode, snapshotCalls,
                  recorderUse >>

\* ------------------------------------------------------- trackTermsChanges
\* Faulty variant: the catch block drops the message of an inaccessible document.
PushedErrorsDropped(t, d, o) == inaccessibleContentErrors[t]

\* Faulty variant: the catch block keeps the message of the last failure only.
PushedErrorsLastOnly(t, d, o) ==
  IF o # "ok" /\ IsInaccessible(o) THEN << d >> ELSE inaccessibleContentErrors[t]

\* The documents whose message fetchTermsDocuments pushed, after document d
\* settled with outcome o.
PushedErrors(t, d, o) ==
  IF o # "ok" /\ IsInaccessible(o)
  THEN Append(inaccessibleContentErrors[t], d)
  ELSE inaccessibleContentErrors[t]

\* Faulty variant: fetchTermsDocuments returns its result whatever was collected.
fetchTermsDocumentsNoThrow(errors, fetch1, t) == NoFailure

\* fetchTermsDocuments once every fetch has settled and none was thrown
\* again: the InaccessibleContentError it throws, NoFailure when it returns.
fetchTermsDocuments(errors, fetch1, t) ==
  IF Len(errors) > 0
  THEN InaccessibleContentError(errors, [i \in 1..Len(errors) |-> fetch1[t][errors[i]]])
  ELSE NoFailure

\* The fetch of document d of terms t settles with outcome o (resolved, or
\* rejected with one of FetchErrors).  In a run that was already rejected
\* nothing reads the outcome any more ("ignored").  In a run that is still fetching: an
\* error that is not an inaccessible content is thrown again and rejects the
\* run at once; otherwise, when it was the last fetch to settle,
\* fetchTermsDocuments throws the aggregate or returns, and on return
\* recordSnapshot is called for every document.
FetchSettles(t, d, o) ==
  /\ exitCode = 0
  /\ fetch[t][d] = "pending"
  /\ LET fetch1 == [fetch EXCEPT ![t][d] = o]
         errors == PushedErrors(t, d, o)
         settled == \A e \in Documents(t) : fetch1[t][e] # "pending"
         thrown == fetchTermsDocuments(errors, fetch1, t)
         invalid == RecorderRecordSnapshot(ArchivistRecordSnapshotParams)
     IN IF pc[t] # "fetching"
        THEN /\ NoCallback(pc, [fetch EXCEPT ![t][d] = "ignored"], recorderUse)
             /\ UNCHANGED << inaccessibleContentErrors, snapshotCalls >>
        ELSE IF o # "ok" /\ ~IsInaccessible(o)
        THEN /\ TaskCallback(t, "failed", ThrownFetchError(o, d), fetch1, recorderUse)
             /\ UNCHANGED << inaccessibleContentErrors, snapshotCalls >>
        ELSE IF ~settled
        THEN /\ NoCallback(pc, fetch1, recorderUse)
             /\ inaccessibleContentErrors' = [inaccessibleContentErrors EXCEPT ![t] = errors]
             /\ UNCHANGED snapshotCalls
        ELSE IF thrown # NoFailure
        THEN /\ TaskCallback(t, "failed", thrown, fetch1, recorderUse)
             /\ inaccessibleContentErrors' = [inaccessibleContentErrors EXCEPT ![t] = errors]
             /\ UNCHANGED snapshotCalls
        ELSE /\ inaccessibleContentErrors' = [inaccessibleContentErrors EXCEPT ![t] = errors]
             /\ snapshotCalls' = [snapshotCalls EXCEPT ![t] = Documents(t)]
             /\ IF invalid # "none"
                THEN TaskCallback(t, "failed", PlainError(invalid), fetch1,
                                  recorderUse \cup {Use("recordSnapshot", recorder)})
                ELSE NoCallback([pc EXCEPT ![t] = "snapshotSaving"], fetch1,
                                recorderUse \cup {Use("recordSnapshot", recorder)})
  /\ UNCHANGED << unit, extracted, version, declared, stored, batches, scheduled, concurrency,
                  processingScheduled, extraction, exitCode >>

\* getTermsSnapshots: the sets of documents the queries of terms t can find
\* a latest snapshot for, given what the repository is known to hold.
getTermsSnapshots(t) ==
  {snaps \in SUBSET Documents(t) :
     \A d \in Documents(t) :
       /\ d \in snaps => (<< t, d >> \in StoredKeys /\ stored[<< t, d >>] # "no")
       /\ d \notin snaps => (<< t, d >> \in StoredKeys => stored[<< t, d >>] # "yes")}

\* The record a getLatestSnapshot query of the run of terms t resolves with
\* when the repository finds one for the query made for document d.
Snapshot(t, d) == [id |-> << t, d >>, fetchDate |-> d]

\* getTermsSnapshots: the results of the queries in the order of the
\* documents of the terms, without the empty ones (filter(Boolean)).
LoadedSnapshots(t, snaps) ==
  LET found == SelectSeq([d \in 1..Cardinality(Documents(t)) |-> d], LAMBDA d : d \in snaps)
  IN [i \in 1..Len(found) |-> Snapshot(t, found[i])]

\* Faulty variant: the run goes on without any snapshot.
SkipsVersionNever(snapshots) == FALSE

\* if (!snapshots.length) return
SkipsVersion(snapshots) == Len(snapshots) = 0

\* Every getLatestSnapshot of the run resolves, with a snapshot for the
\* documents of snaps: without any snapshot the run returns; otherwise
\* extract is called for every snapshot.
SnapshotsLoaded(t, snaps) ==
  /\ exitCode = 0
  /\ pc[t] = "loading"
  /\ snaps \in getTermsSnapshots(t)
  /\ stored' = [k \in StoredKeys |->
                  IF k[1] = t THEN (IF k[2] \in snaps THEN "yes" ELSE "no") ELSE stored[k]]
  /\ IF SkipsVersion(LoadedSnapshots(t, snaps))
     THEN /\ TaskCallback(t, "skipped", NoFailure, fetch, recorderUse)
          /\ UNCHANGED extraction
     ELSE /\ NoCallback([pc EXCEPT ![t] = "extracting"], fetch, recorderUse)
          /\ extraction' = [extraction EXCEPT ![t] =
               [d \in Documents(t) |-> IF d \in snaps THEN "pending" ELSE "none"]]
  /\ UNCHANGED << unit, extracted, version, declared, batches, scheduled, concurrency,
                  processingScheduled, inaccessibleContentErrors, exitCode,
                  snapshotCalls >>

ExtractOutcomes == {"ok", "Error"}

\* What extract resolves with for a snapshot.
Extracted(id) == << "extracted", id >>

\* Faulty variant: the results are taken in the order the extractions resolved.
PromiseAllExtractsByCompletion(snapshots, resolved) ==
  [i \in 1..Len(resolved) |-> Extracted(resolved[i])]

\* await Promise.all(snapshots.map(... this.extract(...))): the array of the
\* results, each at the index of its snapshot, whatever the order `resolved`
\* in which the extractions resolved.
PromiseAllExtracts(snapshots, resolved) ==
  [i \in 1..Len(snapshots) |-> Extracted(snapshots[i].id)]

\* array.join(separator)
RECURSIVE Join(_, _)
Join(array, separator) ==
  IF Len(array) = 0 THEN << >>
  ELSE IF Len(array) = 1 THEN << array[1] >>
  ELSE << array[1], separator >> \o Join(Tail(array), separator)

\* extractVersionContent
extractVersionContent(snapshots, resolved) ==
  Join(PromiseAllExtracts(snapshots, resolved), << "\n\n" >>)

\* The parameters trackTermsChanges gives to recordVersion.
VersionParams(snapshots, resolved, eo) ==
  [content |-> extractVersionContent(snapshots, resolved),
   snapshotIds |-> [i \in 1..Len(snapshots) |-> snapshots[i].id],
   fetchDate |-> snapshots[1].fetchDate,
   extractOnly |-> eo]

\* The extract call for the snapshot of document d settles.  An error
\* rejects the run at once; when every extraction is done, recordVersion is
\* called.
ExtractSettles(t, d, o) ==
  /\ exitCode = 0
  /\ extraction[t][d] = "pending"
  /\ extraction' = [extraction EXCEPT ![t][d] = IF pc[t] = "extracting" THEN o ELSE "ignored"]
  /\ LET done == \A e \in Documents(t) : e # d => extraction[t][e] # "pending"
         invalid == RecorderRecordVersion(ArchivistRecordVersionParams)
         use1 == recorderUse \cup {Use("recordVersion", recorder)}
         snapshots == LoadedSnapshots(t, {e \in Documents(t) : extraction[t][e] # "none"})
         resolved == Append(extracted[t], Snapshot(t, d).id)
         submit == version' = [version EXCEPT ![t] = VersionParams(snapshots, resolved, extractOnly)]
     IN IF pc[t] # "extracting"
        THEN NoCallback(pc, fetch, recorderUse) /\ UNCHANGED << extracted, version >>
        ELSE IF o # "ok"
        THEN TaskCallback(t, "failed", PlainError(o), fetch, recorderUse)
             /\ UNCHANGED << extracted, version >>
        ELSE IF ~done
        THEN NoCallback(pc, fetch, recorderUse)
             /\ extracted' = [extracted EXCEPT ![t] = resolved] /\ UNCHANGED version
        ELSE IF invalid # "none"
        THEN TaskCallback(t, "failed", PlainError(invalid), fetch, use1)
             /\ extracted' = [extracted EXCEPT ![t] = resolved] /\ submit
        ELSE NoCallback([pc EXCEPT ![t] = "versionSaving"], fetch, use1)
             /\ extracted' = [extracted EXCEPT ![t] = resolved] /\ submit
  /\ UNCHANGED << unit, declared, stored, batches, scheduled, concurrency,
                  processingScheduled, inaccessibleContentErrors, exitCode,
                  snapshotCalls >>

\* ------------------------------------------------ listener of `error`
\* stopHeadlessBrowser() resolves in the listener: recorder.finalize() is
\* called.
ShutdownBrowserStopped ==
  /\ exitCode = 0
  /\ shutdown = "stoppingBrowser"
  /\ browser' = "off"
  /\ recorder' = "finalizing"
  /\ shutdown' = "finalizingRecorder"
  /\ UNCHANGED << unit, extracted, version, declared, stored, batches, batchPc, scheduled, concurrency,
                  tasks, processingScheduled, errorHandler, drainWaiter, pc,
                  fetch, inaccessibleContentErrors, extraction, failure,
                  stopCalls, watchdog, exitCode, emitted, snapshotCalls,
                  recorderUse >>

\* recorder.finalize() resolves in the listener: process.exit(1).
ShutdownRecorderFinalized ==
  /\ exitCode = 0
  /\ shutdown = "finalizingRecorder"
  /\ recorder' = "finalized"
  /\ shutdown' = "exited"
  /\ exitCode' = 1
  /\ UNCHANGED << unit, extracted, version, declared, stored, batches, batchPc, scheduled, concurrency,
                  tasks, processingScheduled, errorHandler, drainWaiter, pc,
                  fetch, inaccessibleContentErrors, extraction, failure,
                  browser, stopCalls, watchdog, emitted, snapshotCalls,
                  recorderUse >>

\* stopHeadlessBrowser() or recorder.finalize() rejects in the listener: the
\* listener ends there, nothing of it runs any more.
ShutdownStepFails ==
  /\ exitCode = 0
  /\ shutdown \in {"stoppingBrowser", "finalizingRecorder"}
  /\ shutdown' = "rejected"
  /\ UNCHANGED << unit, extracted, version, declared, stored, batches, batchPc, scheduled, concurrency,
                  tasks, processingScheduled, errorHandler, drainWaiter, pc,
                  fetch, inaccessibleContentErrors, extraction, failure,
                  browser, stopCalls, recorder, watchdog, exitCode, emitted,
                  snapshotCalls, recorderUse >>

\* The timer of the listener fires: process.exit(2).
WatchdogFires ==
  /\ exitCode = 0
  /\ watchdog
  /\ exitCode' = 2
  /\ UNCHANGED << unit, extracted, version, declared, stored, batches, batchPc, scheduled, concurrency,
                  tasks, processingScheduled, errorHandler, drainWaiter, pc,
                  fetch, inaccessibleContentErrors, extraction, failure,
                  browser, stopCalls, recorder, shutdown, watchdog, emitted,
                  snapshotCalls, recorderUse >>

\* ----------------------------------------------------------- specification
Next ==
  \/ \E eo \in BOOLEAN : \E n \in BatchSizes(eo) : trackAllTermsChanges(n, eo)
  \/ BrowserLaunched
  \/ RecorderInitialized
  \/ QueueProcess
  \/ \E k \in DocumentKeys : \E o \in {"ok"} \cup FetchErrors : FetchSettles(k[1], k[2], o)
  \/ \E t \in Terms : \E snaps \in SUBSET Documents(t) : SnapshotsLoaded(t, snaps)
  \/ \E k \in DocumentKeys : \E o \in ExtractOutcomes : ExtractSettles(k[1], k[2], o)
  \/ ReleaseBrowserStopped
  \/ ReleaseRecorderFinalized
  \/ ShutdownBrowserStopped
  \/ ShutdownRecorderFinalized
  \/ ShutdownStepFails
  \/ WatchdogFires

Spec == Init /\ [][Next]_vars

\* The timer of the watchdog fires when it is armed and the process runs.
FairSpec == Spec /\ WF_vars(WatchdogFires)

\* A step of a batch in progress: a promise the batch awaits settles, the
\* setImmediate of the queue or a timer fires.
BatchStep == Next /\ batchPc # "idle"

\* Every promise awaited by a batch in progress settles and every callback
\* scheduled for it runs.
LiveSpec == Spec /\ WF_vars(BatchStep)

\* =================================================== functions taken alone
\* The functions of the Recorder, the event emission of the Archivist and
\* the data mapper of the git repository, each applied alone to inputs drawn
\* from bounded sets; `unit` holds the call and its result.  The functions
\* keep no state of their own, so a behaviour makes one call.

\* Largest number of snapshot ids of a record given to the data mapper.
MaxSnapshotIds == 2
\* Largest number of files in the diff of a commit given to the data mapper.
MaxFiles == 2

pipelineVars ==
  << declared, stored, batches, batchPc, scheduled, concurrency, tasks,
     processingScheduled, errorHandler, drainWaiter, pc, fetch,
     inaccessibleContentErrors, extraction, failure, browser, stopCalls,
     recorder, shutdown, watchdog, exitCode, emitted, snapshotCalls,
     recorderUse, extracted, version >>

\* ----------------------------------------------------------------- Recorder
\* The parameters of a call: the fields given with a truthy value, and the
\* fields given with the value false.
RecorderFields ==
  { "serviceId", "termsType", "documentType", "documentId", "snapshotId",
    "snapshotIds", "fetchDate", "mimeType", "content", "extractOnly",
    "isRefilter" }
RecorderParams ==
  [truthy : SUBSET RecorderFields, falsy : SUBSET {"isRefilter"}]

\* new Record({ serviceId, documentType, fetchDate, mimeType, content }): the
\* fields of the record that are set.
SnapshotRecord(params) ==
  params \cap {"serviceId", "documentType", "fetchDate", "mimeType", "content"}

\* new Record({ serviceId, documentType, snapshotId, fetchDate, mimeType,
\* content, isRefilter })
VersionRecord(params) ==
  params \cap {"serviceId", "documentType", "snapshotId", "fetchDate",
              "mimeType", "content", "isRefilter"}

\* Recorder.recordSnapshot: the error thrown and the records given to
\* snapshotsRepository.save.
recordSnapshot(params) ==
  [error |-> RecorderRecordSnapshot(params),
   saved |-> IF RecorderRecordSnapshot(params) = "none"
             THEN << SnapshotRecord(params) >> ELSE << >>]

\* Recorder.recordVersion: the error thrown and the records given to
\* versionsRepository.save.
recordVersion(params) ==
  [error |-> RecorderRecordVersion(params),
   saved |-> IF RecorderRecordVersion(params) = "none"
             THEN << VersionRecord(params) >> ELSE << >>]

\* { isRefilter: true, ...params }: a field of params replaces the default.
SpreadRefilter(params) ==
  IF "isRefilter" \in params.falsy THEN params.truthy \ {"isRefilter"}
  ELSE params.truthy \cup {"isRefilter"}

\* Recorder.recordRefilter
recordRefilter(params) == recordVersion(SpreadRefilter(params))

RecorderRecordsSnapshot(params) ==
  /\ unit = NoCall
  /\ unit' = [op |-> "recordSnapshot", params |-> params,
              result |-> recordSnapshot(params.truthy)]
  /\ UNCHANGED pipelineVars

RecorderRecordsVersion(params) ==
  /\ unit = NoCall
  /\ unit' = [op |-> "recordVersion", params |-> params,
              result |-> recordVersion(params.truthy)]
  /\ UNCHANGED pipelineVars

RecorderRecordsRefilter(params) ==
  /\ unit = NoCall
  /\ unit' = [op |-> "recordRefilter", params |-> params,
              result |-> recordRefilter(params)]
  /\ UNCHANGED pipelineVars

\* ------------------------------------------- events of the Archivist saves
\* What a save of the Recorder resolves with: an id or none, and
\* isFirstRecord.
SaveResults == [id : {"none", "id"}, isFirstRecord : BOOLEAN]

\* Faulty variant: a first record is reported as any other record.
ArchivistRecordSnapshotNeverFirst(result) ==
  IF result.id = "none" THEN << "snapshotNotChanged" >>
  ELSE << "snapshotRecorded" >>

\* Archivist.recordSnapshot once recorder.recordSnapshot has resolved with
\* result: the events it emits.
ArchivistRecordSnapshot(result) ==
  IF result.id = "none" THEN << "snapshotNotChanged" >>
  ELSE << IF result.isFirstRecord THEN "firstSnapshotRecorded" ELSE "snapshotRecorded" >>

\* Archivist.recordVersion once recorder.recordVersion has resolved with
\* result: the events it emits.
ArchivistRecordVersion(result) ==
  IF result.id = "none" THEN << "versionNotChanged" >>
  ELSE << IF result.isFirstRecord THEN "firstVersionRecorded" ELSE "versionRecorded" >>

SnapshotSaveReturns(result) ==
  /\ unit = NoCall
  /\ unit' = [op |-> "Archivist.recordSnapshot", saveResult |-> result,
              result |-> ArchivistRecordSnapshot(result)]
  /\ UNCHANGED pipelineVars

VersionSaveReturns(result) ==
  /\ unit = NoCall
  /\ unit' = [op |-> "Archivist.recordVersion", saveResult |-> result,
              result |-> ArchivistRecordVersion(result)]
  /\ UNCHANGED pipelineVars

\* -------------------------------------------------------------------- texts
\* A text is the sequence of its characters.
Digits == {"0", "1", "2", "3", "4", "5", "6", "7", "8", "9"}
LowerCase ==
  { "a", "b", "c", "d", "e", "f", "g", "h", "i", "j", "k", "l", "m", "n", "o",
    "p", "q", "r", "s", "t", "u", "v", "w", "x", "y", "z" }
UpperCase ==
  { "A", "B", "C", "D", "E", "F", "G", "H", "I", "J", "K", "L", "M", "N", "O",
    "P", "Q", "R", "S", "T", "U", "V", "W", "X", "Y", "Z" }
\* [0-9a-f]
HexDigits == Digits \cup {"a", "b", "c", "d", "e", "f"}
\* \w
WordCharacters == Digits \cup LowerCase \cup UpperCase \cup {"_"}

\* The concatenation of the texts of an array.
RECURSIVE Concat(_)
Concat(array) == IF Len(array) = 0 THEN << >> ELSE array[1] \o Concat(Tail(array))

\* text.startsWith(prefix)
startsWith(text, prefix) ==
  Len(prefix) <= Len(text) /\ SubSeq(text, 1, Len(prefix)) = prefix

\* The positions of text, counted from 1, at which part occurs.
Occurrences(text, part) ==
  {i \in 1..(Len(text) - Len(part) + 1) : SubSeq(text, i, i + Len(part) - 1) = part}

\* text.indexOf(part), counted from 1; 0 when part is absent.
indexOf(text, part) ==
  LET found == Occurrences(text, part)
  IN IF found = {} THEN 0 ELSE First(found)

\* text.lastIndexOf(part), counted from 1; 0 when part is absent.
lastIndexOf(text, part) ==
  LET found == Occurrences(text, part)
  IN IF found = {} THEN 0 ELSE CHOOSE i \in found : \A j \in found : j <= i

\* text.replace(pattern, replacement) for a text pattern: the first
\* occurrence only.
replace(text, pattern, replacement) ==
  LET i == indexOf(text, pattern)
  IN IF i = 0 THEN text
     ELSE SubSeq(text, 1, i - 1) \o replacement \o SubSeq(text, i + Len(pattern), Len(text))

\* text.split(separator)
RECURSIVE split(_, _)
split(text, separator) ==
  LET i == indexOf(text, separator)
  IN IF i = 0 THEN << text >>
     ELSE << SubSeq(text, 1, i - 1) >> \o split(SubSeq(text, i + Len(separator), Len(text)), separator)

\* \b: position i of text (between the characters i - 1 and i) is a word
\* boundary.
WordBoundary(text, i) ==
  (i > 1 /\ text[i - 1] \in WordCharacters) # (i <= Len(text) /\ text[i] \in WordCharacters)

\* The positions at which /\b[0-9a-f]{5,40}\b/ matches, with the length of
\* the match: between two word boundaries are 5 to 40 hexadecimal digits.
\* (The digits being word characters, no boundary lies inside of them, so
\* a position has at most one match and two matches do not overlap.)
SnapshotIdMatches(body) ==
  LET boundaries == {i \in 1..(Len(body) + 1) : WordBoundary(body, i)}
  IN {m \in boundaries \X (5..40) :
        /\ m[1] + m[2] \in boundaries
        /\ \A i \in m[1]..(m[1] + m[2] - 1) : body[i] \in HexDigits}

\* body.match(/\b[0-9a-f]{5,40}\b/g) || []: the matches from left to right.
matchSnapshotIds(body) ==
  LET matches == SnapshotIdMatches(body)
      starts == InOrder({m[1] : m \in matches})
  IN [k \in 1..Len(starts) |->
        LET m == CHOOSE m \in matches : m[1] = starts[k]
        IN SubSeq(body, m[1], m[1] + m[2] - 1)]

\* The decimal text of a small number.
NumberText(n) == << << "0", "1", "2", "3", "4", "5", "6", "7", "8", "9" >>[n + 1] >>

\* -------------------------------------------------------------- data mapper

COMMIT_MESSAGE_PREFIX ==
  [startTracking |->
      << "I", "n", "i", "t", "i", "a", "l", " ", "r", "e", "c", "o",
      "r", "d", " ", "o", "f" >>,
   extractOnly |->
      << "A", "p", "p", "l", "y", " ", "t", "e", "c", "h", "n", "i",
      "c", "a", "l", " ", "o", "r", " ", "d", "e", "c", "l", "a", "r", "a",
      "t", "i", "o", "n", " ", "u", "p", "g", "r", "a", "d", "e", " ", "o",
      "n" >>,
   update |->
      << "R", "e", "c", "o", "r", "d", " ", "n", "e", "w", " ", "c",
      "h", "a", "n", "g", "e", "s", " ", "o", "f" >>,
   deprecated_startTracking |->
      << "S", "t", "a", "r", "t", " ", "t", "r", "a", "c", "k", "i",
      "n", "g" >>,
   deprecated_refilter |-> << "R", "e", "f", "i", "l", "t", "e", "r" >>,
   deprecated_update |-> << "U", "p", "d", "a", "t", "e" >>]

TERMS_TYPE_AND_DOCUMENT_ID_SEPARATOR == << " ", "#" >>
SNAPSHOT_ID_MARKER ==
    << "%", "S", "N", "A", "P", "S", "H", "O", "T",
    "_", "I", "D" >>
SINGLE_SNAPSHOT_PREFIX ==
    << "T", "h", "i", "s", " ", "v", "e", "r", "s",
    "i", "o", "n", " ", "w", "a", "s", " ", "r", "e", "c", "o", "r", "d",
    "e", "d", " ", "a", "f", "t", "e", "r", " ", "a", "n", " ", "e", "x",
    "t", "r", "a", "c", "t", "i", "o", "n", " ", "f", "r", "o", "m", " ",
    "t", "h", "e", " ", "s", "n", "a", "p", "s", "h", "o", "t" >>
MULTIPLE_SNAPSHOT_PREFIX ==
    << "T", "h", "i", "s", " ", "v", "e", "r",
    "s", "i", "o", "n", " ", "w", "a", "s", " ", "r", "e", "c", "o", "r",
    "d", "e", "d", " ", "a", "f", "t", "e", "r", " ", "a", "n", " ", "e",
    "x", "t", "r", "a", "c", "t", "i", "o", "n", " ", "a", "n", "d", " ",
    "a", "n", " ", "a", "s", "s", "e", "m", "b", "l", "i", "n", "g", " ",
    "f", "r", "o", "m", " ", "t", "h", "e", " ", "f", "o", "l", "l", "o",
    "w", "i", "n", "g", " ", "s", "n", "a", "p", "s", "h", "o", "t", "s",
    " ", "f", "r", "o", "m", " ", "%", "N", "U", "M", "B", "E", "R", " ",
    "s", "o", "u", "r", "c", "e", " ", "d", "o", "c", "u", "m", "e", "n",
    "t", "s", ":" >>

\* The mime types known to the mime module that the model uses, with their
\* extension.
MimeTypes ==
  << [type |-> << "t", "e", "x", "t", "/", "h", "t", "m", "l" >>,
      extension |-> << "h", "t", "m", "l" >>],
     [type |-> << "t", "e", "x", "t", "/", "m", "a", "r", "k", "d", "o", "w", "n" >>,
      extension |-> << "m", "d" >>] >>

\* mime.getExtension(mimeType): empty when the type is unknown.
getExtension(mimeType) ==
  IF \E i \in 1..Len(MimeTypes) : MimeTypes[i].type = mimeType
  THEN MimeTypes[CHOOSE i \in 1..Len(MimeTypes) : MimeTypes[i].type = mimeType].extension
  ELSE << >>

\* path.extname(path): from the last dot of the last part of the path.
extname(path) ==
  LET base == SubSeq(path, lastIndexOf(path, << "/" >>) + 1, Len(path))
      dot == lastIndexOf(base, << "." >>)
  IN IF dot <= 1 THEN << >> ELSE SubSeq(base, dot, Len(base))

\* path.basename(path, extension)
basename(path, extension) ==
  LET base == SubSeq(path, lastIndexOf(path, << "/" >>) + 1, Len(path))
  IN IF Len(extension) > 0 /\ Len(extension) < Len(base)
        /\ SubSeq(base, Len(base) - Len(extension) + 1, Len(base)) = extension
     THEN SubSeq(base, 1, Len(base) - Len(extension))
     ELSE base

\* path.dirname(path) of a relative path
dirname(path) ==
  LET slash == lastIndexOf(path, << "/" >>)
  IN IF slash = 0 THEN << "." >> ELSE SubSeq(path, 1, slash - 1)

\* mime.getType(path): empty when the extension is unknown.
getType(path) ==
  LET extension == extname(path)
      known == {i \in 1..Len(MimeTypes) : << "." >> \o MimeTypes[i].extension = extension}
  IN IF known = {} THEN << >> ELSE MimeTypes[CHOOSE i \in known : TRUE].type

generateFileName(termsType, documentId, extension) ==
  termsType
    \o (IF documentId # << >> THEN TERMS_TYPE_AND_DOCUMENT_ID_SEPARATOR \o documentId ELSE << >>)
    \o << "." >> \o extension

generateFilePath(serviceId, termsType, documentId, mimeType) ==
  LET extension == IF getExtension(mimeType) # << >> THEN getExtension(mimeType) ELSE << "*" >>
  IN serviceId \o << "/" >> \o generateFileName(termsType, documentId, extension)

\* Faulty variant: the extract-only prefix takes precedence over the first record.
PrefixExtractOnlyFirst(record) ==
  IF record.isExtractOnly THEN COMMIT_MESSAGE_PREFIX.extractOnly
  ELSE IF record.isFirstRecord THEN COMMIT_MESSAGE_PREFIX.startTracking
  ELSE COMMIT_MESSAGE_PREFIX.update

\* Faulty variant: the prefixes are the legacy ones.
PrefixLegacy(record) ==
  IF record.isFirstRecord THEN COMMIT_MESSAGE_PREFIX.deprecated_startTracking
  ELSE IF record.isExtractOnly THEN COMMIT_MESSAGE_PREFIX.deprecated_refilter
  ELSE COMMIT_MESSAGE_PREFIX.deprecated_update

\* The prefix toPersistence chooses.
Prefix(record) ==
  IF record.isFirstRecord THEN COMMIT_MESSAGE_PREFIX.startTracking
  ELSE IF record.isExtractOnly THEN COMMIT_MESSAGE_PREFIX.extractOnly
  ELSE COMMIT_MESSAGE_PREFIX.update

toPersistence(record, snapshotIdentiferTemplate) ==
  LET snapshotIds == record.snapshotIds
      subject == Prefix(record) \o << " " >> \o record.serviceId \o << " " >> \o record.termsType
      documentIdMessage ==
        IF record.documentId # << >>
        THEN << "D", "o", "c", "u", "m", "e", "n", "t", " ", "I", "D", " " >>
               \o record.documentId \o << "\n", "\n" >>
        ELSE << >>
      snapshotIdsMessage ==
        IF Len(snapshotIds) = 1
        THEN SINGLE_SNAPSHOT_PREFIX \o << " " >>
               \o replace(snapshotIdentiferTemplate, SNAPSHOT_ID_MARKER, snapshotIds[1])
        ELSE IF Len(snapshotIds) > 1
        THEN replace(MULTIPLE_SNAPSHOT_PREFIX, << "%", "N", "U", "M", "B", "E", "R" >>,
                     NumberText(Len(snapshotIds)))
               \o << "\n" >>
               \o Concat(Join([i \in 1..Len(snapshotIds) |->
                                 << "-", " " >> \o replace(snapshotIdentiferTemplate,
                                                         SNAPSHOT_ID_MARKER, snapshotIds[i])],
                              << "\n" >>))
        ELSE << >>
  IN [message |-> subject \o << "\n", "\n" >> \o documentIdMessage
                    \o << "\n", "\n" >> \o snapshotIdsMessage,
      content |-> record.content,
      filePath |-> generateFilePath(record.serviceId, record.termsType,
                                    record.documentId, record.mimeType)]

\* The commit the git repository reads back for what toPersistence
\* returned: `message` is the first line of the commit message, `body` is
\* what follows the blank line after it, and the diff lists `files`.
Commit(persisted, files) ==
  LET end == indexOf(persisted.message, << "\n" >>)
  IN [hash |-> "hash", date |-> "date",
      message |-> SubSeq(persisted.message, 1, end - 1),
      body |-> SubSeq(persisted.message, end + 2, Len(persisted.message)),
      diff |-> [files |-> files]]

NoRecord == [id |-> "none"]

\* Faulty variant: a third file is needed for the error.
TooManyFilesThree(modifiedFilesInCommit) == Len(modifiedFilesInCommit) > 2

\* modifiedFilesInCommit.length > 1
TooManyFiles(modifiedFilesInCommit) == Len(modifiedFilesInCommit) > 1

\* toDomain: the error thrown, or the Record built.
toDomain(commit) ==
  LET modifiedFilesInCommit == commit.diff.files
      relativeFilePath == modifiedFilesInCommit[1]
      snapshotIdsMatch == matchSnapshotIds(commit.body)
      name == split(basename(relativeFilePath, extname(relativeFilePath)),
                    TERMS_TYPE_AND_DOCUMENT_ID_SEPARATOR)
  IN IF TooManyFiles(modifiedFilesInCommit)
     THEN [error |-> "Error: Only one file should have been recorded", record |-> NoRecord]
     ELSE IF Len(modifiedFilesInCommit) = 0
     THEN [error |-> "TypeError", record |-> NoRecord]
     ELSE [error |-> "none",
           record |->
             [id |-> commit.hash,
              serviceId |-> dirname(relativeFilePath),
              termsType |-> name[1],
              documentId |-> IF Len(name) > 1 THEN name[2] ELSE << >>,
              mimeType |-> getType(relativeFilePath),
              fetchDate |-> commit.date,
              isFirstRecord |->
                \/ startsWith(commit.message, COMMIT_MESSAGE_PREFIX.startTracking)
                \/ startsWith(commit.message, COMMIT_MESSAGE_PREFIX.deprecated_startTracking),
              isExtractOnly |->
                \/ startsWith(commit.message, COMMIT_MESSAGE_PREFIX.extractOnly)
                \/ startsWith(commit.message, COMMIT_MESSAGE_PREFIX.deprecated_refilter),
              snapshotIds |-> snapshotIdsMatch]]

\* The records and the templates the data mapper is applied to.
ServiceId == << "s", "e", "r", "v", "i", "c", "e" >>
TermsOfService ==
    << "T", "e", "r", "m", "s", " ", "o", "f", " ", "S",
    "e", "r", "v", "i", "c", "e" >>
SnapshotIdValues ==
  { << "a", "b", "c", "1", "2" >>,
    << "d", "e", "3", "4", "f" >>,
    << "0", "f", "9", "e", "8", "d", "7", "c", "6", "b", "5", "a", "4" >> }
DocumentIds ==
  { << >>,
    << "t", "e", "r", "m", "s" >>,
    << "f", "a", "c", "a", "d", "e" >> }
SnapshotIdentifierTemplates ==
  { << "%", "S", "N", "A", "P", "S", "H", "O", "T", "_", "I", "D" >>,
    << "h", "t", "t", "p", "s", ":", "/", "/", "e", "x", "a", "m", "p", "l", "e", ".", "o", "r", "g", "/", "c", "o", "m", "m", "i", "t", "/", "%", "S", "N", "A", "P", "S", "H", "O", "T", "_", "I", "D" >> }

\* The arrays of at most n elements of S.
RECURSIVE Arrays(_, _)
Arrays(S, n) ==
  IF n = 0 THEN {<< >>}
  ELSE Arrays(S, n - 1) \cup {Append(a, x) : a \in {b \in Arrays(S, n - 1) : Len(b) = n - 1}, x \in S}

Records ==
  [serviceId : {ServiceId}, termsType : {TermsOfService}, documentId : DocumentIds,
   mimeType : {MimeTypes[1].type}, content : {"content"},
   isFirstRecord : BOOLEAN, isExtractOnly : BOOLEAN,
   snapshotIds : Arrays(SnapshotIdValues, MaxSnapshotIds)]

\* A diff of n files, the first of which is the file of the record.
Files(filePath, n) ==
  [i \in 1..n |-> IF i = 1 THEN filePath ELSE filePath \o NumberText(i)]

\* toPersistence is applied to a record, and toDomain to the commit made of
\* its result, whose diff lists n files.
MapperRoundTrip(record, template, n) ==
  LET persisted == toPersistence(record, template)
      commit == Commit(persisted, Files(persisted.filePath, n))
  IN /\ unit = NoCall
     /\ unit' = [op |-> "toDomain", record |-> record, template |-> template,
                 persisted |-> persisted, commit |-> commit,
                 result |-> toDomain(commit)]
     /\ UNCHANGED pipelineVars

UnitInit == Init /\ declared = MaxTerms

UnitNext ==
  \/ \E params \in RecorderParams : RecorderRecordsSnapshot(params)
  \/ \E params \in RecorderParams : RecorderRecordsVersion(params)
  \/ \E params \in RecorderParams : RecorderRecordsRefilter(params)
  \/ \E result \in SaveResults : SnapshotSaveReturns(result)
  \/ \E result \in SaveResults : VersionSaveReturns(result)
  \/ \E record \in Records : \E template \in SnapshotIdentifierTemplates :
       \E n \in 0..MaxFiles : MapperRoundTrip(record, template, n)

UnitSpec == UnitInit /\ [][UnitNext]_vars

\* ================================================================== claims
Running == {"fetching", "loading", "extracting"}
IsError(o) == o \in FetchErrors
\* The documents of terms t whose fetch failed as inaccessible content.
SoftDocs(t) == {d \in Documents(t) : IsError(fetch[t][d]) /\ IsInaccessible(fetch[t][d])}
\* The documents of terms t whose fetch failed in any other way.
HardDocs(t) == {d \in Documents(t) : IsError(fetch[t][d]) /\ ~IsInaccessible(fetch[t][d])}
AllSettled(t) == \A d \in Documents(t) : fetch[t][d] \in {"ok"} \cup FetchErrors
Range(q) == {q[i] : i \in 1..Len(q)}
IsInaccessibleContentError(f) == f.type = "InaccessibleContentError"

\* C1: the number of terms runs in progress at the same time never exceeds 1
\* while the current batch is a live-fetch batch, and never exceeds 10 while
\* it is an extract-only batch; the concurrency of the queue has the value
\* of the batch as soon as a terms of the batch waits in the queue, also
\* for a live-fetch batch that follows an extract-only batch.
C1_ConcurrencyBound ==
  /\ Cardinality(workersList) <= (IF extractOnly THEN 10 ELSE 1)
  /\ (tasks # << >> \/ workersList # {}) =>
        concurrency = (IF extractOnly THEN 10 ELSE 1)

\* A live-fetch batch that follows an extract-only batch runs one terms
\* while another one waits.
C1_Witness ==
  /\ Len(batches) = 2 /\ batches[1] /\ ~batches[2]
  /\ Cardinality(workersList) = 1
  /\ tasks # << >>

\* C2 (as stated): when a run has ended with inaccessible documents, the
\* snapshot save was made for every document of the terms whose fetch
\* succeeded.
C2_Original ==
  \A t \in Terms : \A d \in Documents(t) :
    (pc[t] = "failed" /\ SoftDocs(t) # {} /\ HardDocs(t) = {} /\ fetch[t][d] = "ok")
      => d \in snapshotCalls[t]

\* C2 (amended): the snapshot saves are called only once every fetch of the
\* terms has succeeded, and then for every document; a run in which the
\* fetch of a document failed calls no snapshot save, not even for the
\* documents whose fetch succeeded.
C2_Amended ==
  \A t \in Terms :
    /\ snapshotCalls[t] \in {{}, Documents(t)}
    /\ snapshotCalls[t] # {} => \A d \in Documents(t) : fetch[t][d] = "ok"
    /\ (pc[t] # "fetching" /\ \A d \in Documents(t) : fetch[t][d] = "ok")
         => snapshotCalls[t] = Documents(t)
    /\ (SoftDocs(t) # {} \/ HardDocs(t) # {}) => snapshotCalls[t] = {}

\* A run has ended with one document fetched and one inaccessible, without
\* any snapshot save.
C2_Witness ==
  \E t \in Terms : \E a, b \in Documents(t) :
    /\ pc[t] = "failed" /\ IsInaccessibleContentError(failure[t])
    /\ fetch[t][a] = "ok" /\ b \in SoftDocs(t)
    /\ snapshotCalls[t] = {}

\* C3 (as stated): a run whose fetches have all settled, some as
\* inaccessible content and none with a hard failure, goes on to load the
\* snapshots of the terms.
C3_Original ==
  \A t \in Terms :
    (AllSettled(t) /\ SoftDocs(t) # {} /\ HardDocs(t) = {})
      => pc[t] \in {"loading", "extracting", "versionSaving", "done", "skipped"}

\* C3 (amended): a run whose fetches have all settled, some as inaccessible
\* content and none with a hard failure, ends there, rejected with the
\* InaccessibleContentError: it loads no snapshot, extracts nothing and
\* calls no snapshot save and no version save.
C3_Amended ==
  \A t \in Terms :
    (AllSettled(t) /\ SoftDocs(t) # {} /\ HardDocs(t) = {})
      => /\ pc[t] = "failed"
         /\ IsInaccessibleContentError(failure[t])
         /\ snapshotCalls[t] = {}
         /\ \A d \in Documents(t) : extraction[t][d] = "none"
         /\ \A u \in recorderUse : u.op = "recordSnapshot"

\* A run with inaccessible documents only has been rejected.
C3_Witness ==
  \E t \in Terms :
    /\ AllSettled(t) /\ SoftDocs(t) = Documents(t)
    /\ pc[t] = "failed"

\* C4: when every fetch of a run has settled, at least one as inaccessible
\* content and none in another way, the run is rejected with one
\* InaccessibleContentError whose messages are those of the failed
\* documents, one for each, and none of a document that was fetched; and a
\* run rejected with an InaccessibleContentError has no fetch still pending.
C4_AggregatedError ==
  \A t \in Terms :
    /\ (AllSettled(t) /\ SoftDocs(t) # {} /\ HardDocs(t) = {})
         => /\ IsInaccessibleContentError(failure[t])
            /\ Range(failure[t].reasons) = SoftDocs(t)
            /\ Len(failure[t].reasons) = Cardinality(SoftDocs(t))
    /\ IsInaccessibleContentError(failure[t])
         => /\ AllSettled(t)
            /\ SoftDocs(t) # {} /\ HardDocs(t) = {}

\* A run is rejected with the messages of two inaccessible documents.
C4_Witness ==
  \E t \in Terms :
    /\ IsInaccessibleContentError(failure[t])
    /\ Len(failure[t].reasons) >= 2

Ended == {"failed", "skipped", "done", "killed"}

\* C5 (as stated): every fetch that failed otherwise than as inaccessible
\* content is the error its run was rejected with; the run called no
\* snapshot save and no extraction, and the queue emitted one `error` event
\* and no `inaccessibleContent` event for the terms.
C5_Original ==
  \A t \in Terms : \A d \in HardDocs(t) :
    /\ failure[t] = ThrownFetchError(fetch[t][d], d)
    /\ pc[t] = "failed"
    /\ snapshotCalls[t] = {}
    /\ \A e \in Documents(t) : extraction[t][e] = "none"
    /\ emitted.error[t] = 1
    /\ emitted.inaccessibleContent[t] = 0

\* C5 (amended): the first fetch of a run that fails otherwise than as
\* inaccessible content rejects the run with that very error in the same
\* step, whatever was collected and whatever is still pending, and the
\* error of the run does not change afterwards (a later failure of a sibling
\* is ignored); the run calls no snapshot save and no extraction; the queue
\* emits no `inaccessibleContent` event for it, and one `error` event
\* unless the text of the error contains the rate limit text, in which case
\* it emits nothing.
C5_Amended ==
  /\ [](\A t \in Terms : HardDocs(t) # {} =>
          LET d == failure[t].origin IN
          /\ d \in HardDocs(t)
          /\ failure[t] = ThrownFetchError(fetch[t][d], d)
          /\ pc[t] = "failed"
          /\ snapshotCalls[t] = {}
          /\ \A e \in Documents(t) : extraction[t][e] = "none"
          /\ emitted.inaccessibleContent[t] = 0
          /\ emitted.error[t] = (IF IncludesRateLimit(fetch[t][d]) THEN 0 ELSE 1))
  /\ [][\A t \in Terms :
          (failure[t] # NoFailure /\ batches' = batches) => failure'[t] = failure[t]]_vars

\* A run was rejected by a hard fetch failure, reported as `error`, while
\* the fetch of a sibling document is still pending.
C5_Witness ==
  \E t \in Terms : \E d \in Documents(t) :
    /\ failure[t].origin # 0
    /\ emitted.error[t] = 1
    /\ fetch[t][d] = "pending"

\* C6 (as stated, its safety part): a run rejected with an
\* InaccessibleContentError has caused one `inaccessibleContent` event and
\* no `error` event for its terms, and the terms that waited behind it was
\* started.
C6_Original ==
  \A t \in Terms : IsInaccessibleContentError(failure[t]) =>
    /\ emitted.inaccessibleContent[t] = 1
    /\ emitted.error[t] = 0
    /\ (t + 1 <= scheduled => pc[t + 1] \notin {"queued", "killed"})

\* C6 (amended): a run rejected with an InaccessibleContentError causes no
\* `error` event, and one `inaccessibleContent` event for its terms unless
\* the text of the error contains the rate limit text, in which case it
\* causes no event.  In both cases the step that rejects it triggers no
\* shutdown and leaves the queue alive: the terms waiting next is started
\* in that step, or the batch is released when none waits.  A waiting terms
\* is dropped only by an `error` event of another run.
C6_Amended ==
  /\ [](\A t \in Terms : IsInaccessibleContentError(failure[t]) =>
          /\ emitted.inaccessibleContent[t] = (IF failure[t].quota THEN 0 ELSE 1)
          /\ emitted.error[t] = 0
          /\ (t + 1 <= scheduled => pc[t + 1] \notin {"queued", "killed"}))
  /\ [](\A u \in Terms : pc[u] = "killed" => \E v \in Terms : emitted.error[v] = 1)
  /\ [][\A t \in Terms :
          (~IsInaccessibleContentError(failure[t]) /\ IsInaccessibleContentError(failure'[t]))
            => /\ shutdown' = shutdown /\ watchdog' = watchdog
               /\ errorHandler' = errorHandler /\ exitCode' = exitCode
               /\ tasks # << >> => (tasks' = Tail(tasks) /\ pc'[Head(tasks)] = "fetching")
               /\ tasks = << >> => batchPc' = "releasing"]_vars

\* A run was rejected with an InaccessibleContentError and reported, and
\* the next terms of the batch is running.
C6_Witness ==
  \E t \in Terms :
    /\ IsInaccessibleContentError(failure[t])
    /\ emitted.inaccessibleContent[t] = 1
    /\ t + 1 <= scheduled /\ pc[t + 1] = "fetching"

\* C7: an `error` event starts the shutdown, whose steps happen in this
\* order: the queue is killed (no task waits, the handlers are removed) in
\* the step of the event, the browser is stopped before recorder.finalize
\* is called, the Recorder is finalized before the process exits with code
\* 1; from the step that kills the queue on, no terms starts its run.
C7_ShutdownOrder ==
  /\ []((\E t \in Terms : emitted.error[t] > 0) <=> shutdown # "none")
  /\ [](shutdown # "none" =>
          /\ tasks = << >> /\ ~errorHandler /\ ~drainWaiter /\ watchdog
          /\ \A t \in Terms : pc[t] # "queued")
  /\ [](shutdown = "stoppingBrowser" => (browser = "stopping" /\ recorder = "initialized"))
  /\ [](shutdown = "finalizingRecorder" => (browser = "off" /\ recorder = "finalizing"))
  /\ [](exitCode = 1 <=> shutdown = "exited")
  /\ [](shutdown = "exited" => (browser = "off" /\ recorder = "finalized"))
  /\ [][shutdown' # shutdown =>
          << shutdown, shutdown' >> \in
             { << "none", "stoppingBrowser" >>,
               << "stoppingBrowser", "finalizingRecorder" >>,
               << "finalizingRecorder", "exited" >>,
               << "stoppingBrowser", "rejected" >>,
               << "finalizingRecorder", "rejected" >> }]_vars
  /\ [][shutdown' # "none" =>
          \A t \in Terms : pc[t] \notin Running => pc'[t] \notin Running]_vars

\* The process has exited with code 1 and a terms that waited in the queue
\* was dropped.
C7_Witness ==
  /\ exitCode = 1
  /\ \E t \in Terms : pc[t] = "killed"

\* C8 (as stated): every call of the Recorder (recordSnapshot,
\* recordVersion, getLatestSnapshot) is made while the Recorder is
\* initialized: after initialize has completed and before finalize is
\* called.
C8_RecorderBracket ==
  \A u \in recorderUse : u.lifecycle = "initialized"

\* C9: once an `error` event was emitted the process eventually exits; it
\* exits with code 1 only when the browser was stopped and the Recorder
\* finalized by the listener, and with code 2 only by the timer; when
\* stopHeadlessBrowser or recorder.finalize fails it exits with code 2.
C9_Termination ==
  /\ (shutdown # "none") ~> (exitCode # 0)
  /\ (shutdown = "rejected") ~> (exitCode = 2)
  /\ [](exitCode = 1 => (shutdown = "exited" /\ browser = "off" /\ recorder = "finalized"))
  /\ [](exitCode = 2 => (watchdog /\ shutdown # "exited"))

\* stopHeadlessBrowser or recorder.finalize failed and the timer ended the
\* process.
C9_Witness == shutdown = "rejected" /\ exitCode = 2

\* The parts of C10 that hold: a run starts only while the browser is
\* launched, and once every run of a batch that scheduled one or more terms
\* has ended, stopHeadlessBrowser has been called.
C10_LaunchedAndStopped ==
  /\ [][\A t \in Terms : (pc[t] \notin Running /\ pc'[t] \in Running) => browser = "on"]_vars
  /\ []((scheduled > 0 /\ \A t \in Terms : t <= scheduled => pc[t] \in Ended)
          => browser \in {"stopping", "off"})
  /\ [](shutdown # "none" => browser \in {"stopping", "off"})

\* C10 (as stated): ... and stopHeadlessBrowser is never called while a
\* document fetch is still in progress.
C10_Original ==
  /\ C10_LaunchedAndStopped
  /\ [][stopCalls' > stopCalls =>
          \A k \in DocumentKeys : fetch'[k[1]][k[2]] # "pending"]_vars

\* C10 (amended): ... and stopHeadlessBrowser is never called while a run
\* is still fetching: a fetch can be in progress when the browser is
\* stopped only when its run was already rejected by the hard failure of a
\* sibling fetch, which is not awaited.
C10_Amended ==
  /\ C10_LaunchedAndStopped
  /\ [][stopCalls' > stopCalls =>
          /\ \A t \in Terms : pc'[t] # "fetching"
          /\ \A k \in DocumentKeys : fetch'[k[1]][k[2]] = "pending" =>
               (pc'[k[1]] = "failed" /\ HardDocs(k[1])' # {})]_vars

\* The browser is being stopped while the fetch of a document of a
\* rejected run is still pending.
C10_Witness ==
  /\ browser = "stopping"
  /\ \E t \in Terms : \E d \in Documents(t) :
       pc[t] = "failed" /\ fetch[t][d] = "pending"

\* The documents of terms t a snapshot was loaded for by the run.
Loaded(t) == {d \in Documents(t) : extraction[t][d] # "none"}
\* C11: when a run calls the version save, the version it submits has as
\* content the extracted strings of the loaded snapshots in the order of
\* the documents, with "\n\n" between two of them, whatever the order in
\* which the extractions resolved; as snapshotIds the ids of the loaded
\* snapshots in that order; as fetchDate the fetch date of the first loaded
\* snapshot.  The save is called once every extraction has resolved.
C11_SubmittedVersion ==
  \A t \in Terms : version[t] # NoVersion =>
    LET docs == InOrder(Loaded(t)) IN
    /\ Len(docs) > 0
    /\ \A d \in Loaded(t) : extraction[t][d] = "ok"
    /\ Range(extracted[t]) = {Snapshot(t, d).id : d \in Loaded(t)}
    /\ version[t].snapshotIds = [i \in 1..Len(docs) |-> Snapshot(t, docs[i]).id]
    /\ version[t].fetchDate = Snapshot(t, docs[1]).fetchDate
    /\ Len(version[t].content) = 2 * Len(docs) - 1
    /\ \A i \in 1..Len(docs) :
         version[t].content[2 * i - 1] = Extracted(Snapshot(t, docs[i]).id)
    /\ \A i \in 1..(Len(docs) - 1) : version[t].content[2 * i] = << "\n\n" >>

\* A version was submitted for two snapshots whose extractions resolved in
\* the reverse order of the documents.
C11_Witness ==
  \E t \in Terms :
    /\ version[t] # NoVersion
    /\ Len(extracted[t]) >= 2
    /\ extracted[t][1] = Snapshot(t, 2).id
    /\ extracted[t][2] = Snapshot(t, 1).id

\* The repository holds no snapshot for any document of terms t.
NoneStored(t) ==
  \A d \in Documents(t) : << t, d >> \in StoredKeys => stored[<< t, d >>] = "no"

\* C12: a run that finds no snapshot for any document of its terms ends in
\* the step in which its queries resolve, without an error; it calls no
\* extract and no version save, and no inaccessibleContent and no error
\* event is emitted for its terms.
C12_SkippedWithoutSnapshot ==
  /\ [](\A t \in Terms :
          (extractOnly /\ NoneStored(t) /\ pc[t] \notin {"idle", "queued", "killed", "loading"})
            => /\ pc[t] = "skipped"
               /\ failure[t] = NoFailure
               /\ \A d \in Documents(t) : extraction[t][d] = "none"
               /\ version[t] = NoVersion
               /\ emitted.inaccessibleContent[t] = 0
               /\ emitted.error[t] = 0)
  /\ [](\A t \in Terms : pc[t] = "skipped" => NoneStored(t))
  /\ [][\A t \in Terms :
          (pc[t] = "loading" /\ pc'[t] # "loading" /\ NoneStored(t)')
            => /\ pc'[t] = "skipped"
               /\ recorderUse' \subseteq recorderUse \cup {Use("getLatestSnapshot", recorder)}
               /\ shutdown' = shutdown]_vars

\* A run without any snapshot was skipped and the terms after it in the
\* batch had its version submitted.
C12_Witness ==
  \E t, u \in Terms :
    /\ pc[t] = "skipped"
    /\ t < u /\ version[u] # NoVersion

\* C14: in an extract-only batch no run fetches a document and no run calls
\* a snapshot save, and the version a run submits refers only to snapshots
\* the repository held before the run.
C14_ExtractOnlyFrame ==
  extractOnly =>
    /\ \A t \in Terms : \A d \in Documents(t) : fetch[t][d] = "none"
    /\ \A t \in Terms : snapshotCalls[t] = {}
    /\ \A u \in recorderUse : u.op \in {"getLatestSnapshot", "recordVersion"}
    /\ \A t \in Terms : \A i \in 1..Len(version[t].snapshotIds) :
         /\ version[t].snapshotIds[i] \in StoredKeys
         /\ stored[version[t].snapshotIds[i]] = "yes"
         /\ version[t].extractOnly

\* An extract-only run has submitted its version.
C14_Witness ==
  /\ extractOnly
  /\ \E t \in Terms : version[t] # NoVersion /\ pc[t] = "failed"

\* C13 (Archivist.recordSnapshot and Archivist.recordVersion applied to
\* what the save of the Recorder resolved with): each emits one event, the
\* NotChanged event when the save resolved without id, the first...Recorded
\* event when it resolved with an id and isFirstRecord, the Recorded event
\* when it resolved with an id and without isFirstRecord.
C13_SaveEvents ==
  /\ unit.op = "Archivist.recordSnapshot" =>
       /\ Len(unit.result) = 1
       /\ unit.result[1] \in {"snapshotNotChanged", "snapshotRecorded", "firstSnapshotRecorded"}
       /\ unit.result[1] = "snapshotNotChanged" <=> unit.saveResult.id = "none"
       /\ unit.result[1] = "firstSnapshotRecorded" <=>
            (unit.saveResult.id # "none" /\ unit.saveResult.isFirstRecord)
       /\ unit.result[1] = "snapshotRecorded" <=>
            (unit.saveResult.id # "none" /\ ~unit.saveResult.isFirstRecord)
  /\ unit.op = "Archivist.recordVersion" =>
       /\ Len(unit.result) = 1
       /\ unit.result[1] \in {"versionNotChanged", "versionRecorded", "firstVersionRecorded"}
       /\ unit.result[1] = "versionNotChanged" <=> unit.saveResult.id = "none"
       /\ unit.result[1] = "firstVersionRecorded" <=>
            (unit.saveResult.id # "none" /\ unit.saveResult.isFirstRecord)
       /\ unit.result[1] = "versionRecorded" <=>
            (unit.saveResult.id # "none" /\ ~unit.saveResult.isFirstRecord)

\* A snapshot save resolved with an id and isFirstRecord, and the event was
\* emitted.
C13_Witness ==
  /\ unit.op = "Archivist.recordSnapshot"
  /\ unit.saveResult.id # "none" /\ unit.saveResult.isFirstRecord
  /\ unit.result = << "firstSnapshotRecorded" >>

\* The fields the specification requires of a snapshot and of a version.
RequiredFields == {"serviceId", "termsType", "fetchDate", "content", "mimeType"}

\* C15 (as stated): Recorder.recordSnapshot throws exactly when serviceId,
\* termsType, fetchDate, content or mimeType is missing; it calls the save
\* of the snapshots repository once when it does not throw and not at all
\* when it throws; the call of the Archivist does not throw.
C15_SnapshotValidation ==
  unit.op = "recordSnapshot" =>
    /\ unit.result.error # "none" <=> ~(RequiredFields \subseteq unit.params.truthy)
    /\ unit.result.error # "none" => Len(unit.result.saved) = 0
    /\ unit.result.error = "none" => Len(unit.result.saved) = 1
    /\ unit.params.truthy = ArchivistRecordSnapshotParams => unit.result.error = "none"

\* C16 (as stated): Recorder.recordVersion throws exactly when a required
\* field is missing or neither snapshotId nor snapshotIds is given; it calls
\* the save of the versions repository once when it does not throw and not
\* at all when it throws.
C16_VersionValidation ==
  unit.op = "recordVersion" =>
    /\ unit.result.error # "none" <=>
         ~(/\ RequiredFields \subseteq unit.params.truthy
           /\ unit.params.truthy \cap {"snapshotId", "snapshotIds"} # {})
    /\ unit.result.error # "none" => Len(unit.result.saved) = 0
    /\ unit.result.error = "none" => Len(unit.result.saved) = 1

\* C17 (as stated): every record Recorder.recordRefilter saves has the flag
\* set, whatever the parameters.
C17_RefilterForced ==
  unit.op = "recordRefilter" =>
    \A i \in 1..Len(unit.result.saved) : "isRefilter" \in unit.result.saved[i]

\* C18 (as stated): toDomain gives back isFirstRecord and isExtractOnly of
\* the record toPersistence was applied to.
C18_Original ==
  (unit.op = "toDomain" /\ unit.result.error = "none") =>
    /\ unit.result.record.isFirstRecord = unit.record.isFirstRecord
    /\ unit.result.record.isExtractOnly = unit.record.isExtractOnly

\* C18 (amended): toDomain gives back isFirstRecord, and gives back
\* isExtractOnly for a record that is not a first record; a first record is
\* decoded with isExtractOnly false, also when it was extract-only.
C18_Amended ==
  (unit.op = "toDomain" /\ unit.result.error = "none") =>
    /\ unit.result.record.isFirstRecord = unit.record.isFirstRecord
    /\ unit.result.record.isExtractOnly =
         (unit.record.isExtractOnly /\ ~unit.record.isFirstRecord)

\* A record that is both a first record and extract-only was encoded and
\* decoded.
C18_Witness ==
  /\ unit.op = "toDomain" /\ unit.result.error = "none"
  /\ unit.record.isFirstRecord /\ unit.record.isExtractOnly
  /\ ~unit.result.record.isExtractOnly

\* C19 (as stated): the snapshotIds toDomain reads in the body of the commit
\* made from toPersistence are those of the record, no more and no less,
\* with or without a documentId.
C19_SnapshotIdsRoundTrip ==
  (unit.op = "toDomain" /\ unit.result.error = "none") =>
    Range(unit.result.record.snapshotIds) = Range(unit.record.snapshotIds)

\* C20: toDomain throws its error about the files of the commit exactly
\* when the diff lists more than one file, and builds no Record then; for
\* one file it builds a Record.
C20_OneFile ==
  unit.op = "toDomain" =>
    /\ unit.result.error = "Error: Only one file should have been recorded"
         <=> Len(unit.commit.diff.files) > 1
    /\ Len(unit.commit.diff.files) > 1 => unit.result.record = NoRecord
    /\ Len(unit.commit.diff.files) = 1 =>
         (unit.result.error = "none" /\ unit.result.record # NoRecord)

\* toDomain has thrown for a commit of two files.
C20_Witness ==
  /\ unit.op = "toDomain"
  /\ Len(unit.commit.diff.files) = 2
  /\ unit.result.error # "none"

C22_PrefixPriority ==
  unit.op = "toDomain" =>
    LET message == unit.persisted.message
        expected ==
          IF unit.record.isFirstRecord THEN "startTracking"
          ELSE IF unit.record.isExtractOnly THEN "extractOnly"
          ELSE "update"
    IN /\ \A kind \in DOMAIN COMMIT_MESSAGE_PREFIX :
            startsWith(message, COMMIT_MESSAGE_PREFIX[kind]) <=> kind = expected
       /\ startsWith(message, COMMIT_MESSAGE_PREFIX[expected] \o << " " >>
                                \o unit.record.serviceId \o << " " >>
                                \o unit.record.termsType \o << "\n", "\n" >>)

\* toPersistence was applied to a record that is both a first record and
\* extract-only, and its message starts with 'Initial record of'.
C22_Witness ==
  /\ unit.op = "toDomain"
  /\ unit.record.isFirstRecord /\ unit.record.isExtractOnly
  /\ startsWith(unit.persisted.message, COMMIT_MESSAGE_PREFIX.startTracking)

\* C23 (as stated): the call of recorder.recordVersion made by the Archivist
\* for a run of an extract-only batch gives one record to the save of the
\* versions repository, and a record given to that save has its extract-only
\* flag set when the call had extractOnly set, and not set when the call had
\* neither extractOnly nor isRefilter set.
C23_ExtractOnlyReachesRepository ==
  unit.op = "recordVersion" =>
    /\ unit.params.truthy = ArchivistRecordVersionParams => Len(unit.result.saved) = 1
    /\ \A i \in 1..Len(unit.result.saved) :
         /\ "extractOnly" \in unit.params.truthy => "isRefilter" \in unit.result.saved[i]
         /\ unit.params.truthy \cap {"extractOnly", "isRefilter"} = {}
              => "isRefilter" \notin unit.result.saved[i]

\* C24 (as stated): a batch that was started, whatever the number of terms
\* it schedules, eventually emits trackingCompleted unless a run fails
\* fatally; trackingCompleted is emitted once per batch, after
\* trackingStarted, when every scheduled run has ended, the browser is
\* stopped and the Recorder is finalized.
C24_TrackingCompleted ==
  /\ (batchPc # "idle") ~> (batchPc = "idle" \/ shutdown # "none")
  /\ [](emitted.trackingCompleted <= emitted.trackingStarted)
  /\ [](batchPc = "idle" => emitted.trackingCompleted = emitted.trackingStarted)
  /\ [][emitted'.trackingCompleted # emitted.trackingCompleted =>
          /\ emitted'.trackingCompleted = emitted.trackingCompleted + 1
          /\ emitted'.trackingCompleted = emitted'.trackingStarted
          /\ \A t \in Terms : t <= scheduled => pc'[t] \in {"failed", "skipped", "done"}
          /\ browser' = "off" /\ recorder' = "finalized"]_vars

====
